---- MODULE Spec2Model ----
(***************************************************************************)
(* The workspace store (src/store/useWorkspaceStore.ts) and the dashboard  *)
(* that drives it (src/components/AgentDashboard.tsx).                     *)
(*                                                                         *)
(* Representation.  A JavaScript object is a record.  null, undefined and  *)
(* "property not present" are the strings Null, Undefined and NoId.       *)
(* Calendar dates are kept as the expression that produced them ("today",  *)
(* "today-2", ...).  amount is an integer, hoursWorked an integer number   *)
(* of half hours, dailySpend an integer number of halves of the currency   *)
(* unit.  An instant is a day, counted from the day of the load, and a     *)
(* minute of that day.                                                     *)
(***************************************************************************)
EXTENDS Integers, Sequences, FiniteSets, TLC

VARIABLES
  state,            \* the zustand state: the four collections and the cursor
  issued,           \* the values crypto.randomUUID() has returned so far
  lastOp,           \* history: the most recent store call and its arguments
  observed,         \* the snapshot last delivered to the store's subscribers
  draft,            \* immer's working copy while a set() recipe runs
  calls,            \* how many store calls have been made
  events,           \* how many dashboard events have been handled
  pc,               \* position of the running handler ("idle" between events)
  record,           \* handleAddAttendance's local `record`
  attendanceDraft,  \* useState<AttendanceDraft>
  paymentDraft,     \* useState<PaymentDraft>
  now,              \* the instant `new Date()` returns
  rendered          \* the values the component's useMemo hooks hold

vars == <<state, issued, lastOp, observed, draft, calls, events, pc, record,
          attendanceDraft, paymentDraft, now, rendered>>

Null      == "<null>"
Undefined == "<undefined>"
NoId      == "<no id property>"
NoDraft   == [id |-> NoId]
NoRecord  == [id |-> NoId]

\* How many values the id generator can hand out in one run.
MaxUuid == 2

\* How many store calls one run makes.
MaxCalls == 3

\* How many dashboard events (clicks, selections, form edits) one run has.
MaxEvents == 4

LabourStatus    == {"present", "absent", "leave", "standby"}
PaymentCategory == {"advance", "material", "bonus", "deduction"}

\* The UUID space; no seeded id lies in it.
UUIDs == { "uuid-" \o ToString(i) : i \in 1..MaxUuid }

\* What the next crypto.randomUUID() can return: a value not returned before.
\* Fresh values differ from each other in nothing but their name, so they are
\* handed out in the order of their numbers.
randomUUID ==
  IF Cardinality(issued) < MaxUuid
    THEN {"uuid-" \o ToString(Cardinality(issued) + 1)}
    ELSE {}

initialContractors ==
  << [id |-> "c1", name |-> "Skyline Mechanical", company |-> "Skyline Mechanical",
      scope |-> "High-rise plumbing installation & QA", budget |-> 180000,
      startDate |-> "month:1", endDate |-> "month+2:0", crewSizeTarget |-> 12,
      notes |-> "Key milestone: pressure test every Wednesday."],
     [id |-> "c2", name |-> "BlueWave Piping", company |-> "BlueWave Piping",
      scope |-> "Basement drainage rerouting", budget |-> 95000,
      startDate |-> "month:5", endDate |-> "month+1:20", crewSizeTarget |-> 8,
      notes |-> "Coordinate with civil to avoid conduit clashes."] >>

initialWorkers ==
  << [id |-> "w1", name |-> "Priya Sharma", trade |-> "Pipe Fitter",
      dailyRate |-> 4200, status |-> "present", phone |-> "+91 98765 43210",
      contractorId |-> "c1"],
     [id |-> "w2", name |-> "Akash Patel", trade |-> "Welder",
      dailyRate |-> 4600, status |-> "present", phone |-> "+91 93210 76543",
      contractorId |-> "c1"],
     [id |-> "w3", name |-> "Michael Lopez", trade |-> "Foreman",
      dailyRate |-> 5800, status |-> "leave", phone |-> "+1 415-555-2010",
      contractorId |-> "c2"],
     [id |-> "w4", name |-> "Lily Chen", trade |-> "Assistant",
      dailyRate |-> 3600, status |-> "standby", phone |-> Undefined,
      contractorId |-> "c2"] >>

\* hoursWorked is kept in half hours, so that the seeded 7.5 is the integer 15.
initialAttendance ==
  << [id |-> "a1", workerId |-> "w1", date |-> "today", hoursWorked |-> 16,
      presence |-> "present", remarks |-> "Stack 12 inspection passed",
      site |-> "Tower B level 21"],
     [id |-> "a2", workerId |-> "w2", date |-> "today", hoursWorked |-> 15,
      presence |-> "present", remarks |-> "Pressure test follow-up",
      site |-> "Tower B roof"],
     [id |-> "a3", workerId |-> "w3", date |-> "today", hoursWorked |-> 0,
      presence |-> "leave", remarks |-> "Family emergency",
      site |-> "Basement shaft"] >>

initialPayments ==
  << [id |-> "p1", workerId |-> "w1", amount |-> 12000, date |-> "today-2",
      category |-> "advance", note |-> "Rotation bonus"],
     [id |-> "p2", workerId |-> "w2", amount |-> 18000, date |-> "today-7",
      category |-> "material", note |-> "Gas cylinder procurement"] >>

initialState ==
  [contractors |-> initialContractors,
   workers     |-> initialWorkers,
   attendance  |-> initialAttendance,
   payments    |-> initialPayments,
   selectedContractorId |->
     IF Len(initialContractors) > 0 THEN initialContractors[1].id ELSE Null]

----------------------------------------------------------------------------
(* Array helpers *)

\* Array.prototype.find by id: the index of the first match, 0 when none.
FindIndex(seq, id) ==
  IF \E i \in 1..Len(seq) : seq[i].id = id
    THEN CHOOSE i \in 1..Len(seq) :
           /\ seq[i].id = id
           /\ \A j \in 1..(i - 1) : seq[j].id # id
    ELSE 0

\* { id: crypto.randomUUID(), ...input }: the spread comes after the id, so an
\* own `id` property of the input object replaces the generated one.  The
\* parameter type Omit<T, "id"> accepts such an object (a full Worker is
\* assignable to Omit<Worker, "id">); NoId stands for "input has no id".
NewEntry(uuid, input) ==
  IF input.id = NoId THEN [input EXCEPT !.id = uuid] ELSE input

----------------------------------------------------------------------------
(* The six recipes handed to set(), as functions of the state they receive *)

\* Variant: a null argument is stored as the empty string.
setSelectedContractor_blank(s, id) ==
  [s EXCEPT !.selectedContractorId = IF id = Null THEN "" ELSE id]

setSelectedContractor(s, id) ==
  [s EXCEPT !.selectedContractorId = id]

\* Variant: the new record is pushed instead of unshifted.
addAttendance_push(s, uuid, input) ==
  [s EXCEPT !.attendance = Append(@, NewEntry(uuid, input))]

addAttendance(s, uuid, input) ==
  [s EXCEPT !.attendance = <<NewEntry(uuid, input)>> \o @]

\* Variant: a found record's presence is copied to the worker it refers to.
updateAttendancePresence_sync(s, id, presence) ==
  LET i == FindIndex(s.attendance, id)
      w == IF i # 0 THEN FindIndex(s.workers, s.attendance[i].workerId) ELSE 0
  IN  IF i = 0 THEN s
      ELSE IF w = 0 THEN [s EXCEPT !.attendance[i].presence = presence]
      ELSE [s EXCEPT !.attendance[i].presence = presence,
                     !.workers[w].status = presence]

updateAttendancePresence(s, id, presence) ==
  LET i == FindIndex(s.attendance, id)
  IN  IF i # 0 THEN [s EXCEPT !.attendance[i].presence = presence] ELSE s

\* Variant: the log keeps a fixed number of entries, dropping the oldest.
addPayment_capped(s, uuid, input) ==
  [s EXCEPT !.payments =
     <<NewEntry(uuid, input)>> \o SubSeq(@, 1, Len(@) - 1)]

addPayment(s, uuid, input) ==
  [s EXCEPT !.payments = <<NewEntry(uuid, input)>> \o @]

\* Variant: the result of the lookup is used without the `if (worker)` test,
\* falling back to the first worker.
updateWorkerStatus_unchecked(s, workerId, status) ==
  LET i == FindIndex(s.workers, workerId)
      j == IF i # 0 THEN i ELSE 1
  IN  [s EXCEPT !.workers[j].status = status]

updateWorkerStatus(s, workerId, status) ==
  LET i == FindIndex(s.workers, workerId)
  IN  IF i # 0 THEN [s EXCEPT !.workers[i].status = status] ELSE s

addWorker(s, uuid, worker) ==
  [s EXCEPT !.workers = Append(@, NewEntry(uuid, worker))]

----------------------------------------------------------------------------
(* The dashboard's derivations (useMemo bodies), as functions of the state *)

NoContractor == [id |-> Null]

\* Variant: a cursor that matches nothing falls back to the first contractor.
selectedContractor_first(s) ==
  LET i == FindIndex(s.contractors, s.selectedContractorId)
  IN  IF i # 0 THEN s.contractors[i]
      ELSE IF s.selectedContractorId # Null THEN s.contractors[1]
      ELSE NoContractor

\* contractors.find((item) => item.id === selectedContractorId) ?? null
selectedContractor(s) ==
  LET i == FindIndex(s.contractors, s.selectedContractorId)
  IN  IF i # 0 THEN s.contractors[i] ELSE NoContractor

\* Variant: the filter compares with the cursor instead of the contractor found.
crew_byCursor(s) ==
  LET Keep(worker) ==
        IF s.selectedContractorId # Null
          THEN worker.contractorId = s.selectedContractorId ELSE TRUE
  IN  SelectSeq(s.workers, Keep)

crew(s) ==
  LET sc == selectedContractor(s)
      Keep(worker) == IF sc # NoContractor THEN worker.contractorId = sc.id ELSE TRUE
  IN  SelectSeq(s.workers, Keep)

\* Variant: the scope test is made against all workers instead of the crew.
latestAttendance_allWorkers(s) ==
  LET Keep(rec) == \E k \in 1..Len(s.workers) : s.workers[k].id = rec.workerId
  IN  SelectSeq(s.attendance, Keep)

latestAttendance(s) ==
  LET c == crew(s)
      Keep(rec) == \E k \in 1..Len(c) : c[k].id = rec.workerId
  IN  SelectSeq(s.attendance, Keep)

latestPayments(s) ==
  LET c == crew(s)
      Keep(payment) == \E k \in 1..Len(c) : c[k].id = payment.workerId
  IN  SelectSeq(s.payments, Keep)

----------------------------------------------------------------------------
(* Dates.  An instant is a day number, counted from the day the store module  *)
(* was loaded, and a minute of that day.                                     *)

\* `const today = new Date()` read as a calendar date: the day of the month
\* and the lengths of this month and of the next.
today == [date |-> 28, monthLength |-> 30, nextMonthLength |-> 31]

\* parseISO of the date strings the seed holds: midnight of that day.
parseISO(str) ==
  [day |-> CASE str = "month:1"    -> 1 - today.date
             [] str = "month:5"    -> 5 - today.date
             [] str = "month+1:20" -> (today.monthLength - today.date) + 20
             [] str = "month+2:0"  -> (today.monthLength - today.date)
                                        + today.nextMonthLength
             [] str = "today-7"    -> 0 - 7
             [] str = "today-2"    -> 0 - 2
             [] OTHER              -> 0,
   minute |-> 0]

\* date-fns compareLocalAsc.
compareLocalAsc(a, b) ==
  IF a.day < b.day THEN 0 - 1
  ELSE IF a.day > b.day THEN 1
  ELSE IF a.minute < b.minute THEN 0 - 1
  ELSE IF a.minute > b.minute THEN 1
  ELSE 0

\* Variant: the difference between the two calendar dates, whatever the
\* time of day.
differenceInDays_calendar(dateLeft, dateRight) ==
  dateLeft.day - dateRight.day

\* date-fns differenceInDays: the number of full days between two instants,
\* truncated towards zero.
differenceInDays(dateLeft, dateRight) ==
  LET sign == compareLocalAsc(dateLeft, dateRight)
      difference == IF dateLeft.day >= dateRight.day
                      THEN dateLeft.day - dateRight.day
                      ELSE dateRight.day - dateLeft.day
      moved == [dateLeft EXCEPT !.day = dateLeft.day - sign * difference]
      isLastDayNotFull == compareLocalAsc(moved, dateRight) = 0 - sign
  IN  sign * (difference - (IF isLastDayNotFull THEN 1 ELSE 0))

----------------------------------------------------------------------------
(* Totals, risk flags and action suggestions *)

\* Variant: a worker on leave is paid half a day, like one on standby.
dailyPresenceWeight_leaveHalf(status) ==
  CASE status = "present" -> 2
    [] status = "standby" -> 1
    [] status = "leave"   -> 1
    [] status = "absent"  -> 0
    [] OTHER              -> 0

\* The weights, doubled: 1 is 2 and 0.5 is 1.  dailySpend is therefore kept
\* doubled as well (in halves of the currency unit).
dailyPresenceWeight(status) ==
  CASE status = "present" -> 2
    [] status = "standby" -> 1
    [] status = "leave"   -> 0
    [] status = "absent"  -> 0
    [] OTHER              -> 0

\* crew.reduce((total, worker) => total + worker.dailyRate * weight, 0),
\* from element k on.
RECURSIVE ReduceSpend(_, _, _)
ReduceSpend(c, k, total) ==
  IF k > Len(c) THEN total
  ELSE ReduceSpend(c, k + 1,
                   total + c[k].dailyRate * dailyPresenceWeight(c[k].status))

\* latestPayments.reduce((total, payment) => total + payment.amount, 0)
RECURSIVE ReduceAmount(_, _, _)
ReduceAmount(py, k, total) ==
  IF k > Len(py) THEN total
  ELSE ReduceAmount(py, k + 1, total + py[k].amount)

\* Array.prototype.filter(...).length
CountWhere(seq, field, value) ==
  Cardinality({ i \in 1..Len(seq) : seq[i][field] = value })

\* Variant: the ratio is cut off instead of rounded.
crewHealthPct_floor(presentCount, targetCrew, crewLength) ==
  IF crewLength # 0 THEN (100 * presentCount) \div targetCrew ELSE 0

\* crew.length ? Math.round((presentCount / targetCrew) * 100) : 0, for a
\* positive targetCrew; Math.round rounds a half upwards.
crewHealthPct(presentCount, targetCrew, crewLength) ==
  IF crewLength # 0
    THEN (200 * presentCount + targetCrew) \div (2 * targetCrew)
    ELSE 0

totals(s) ==
  LET c  == crew(s)
      sc == selectedContractor(s)
      presentCount == CountWhere(c, "status", "present")
      targetCrew   == IF sc # NoContractor THEN sc.crewSizeTarget ELSE Len(c)
  IN  [dailySpend    |-> ReduceSpend(c, 1, 0),
       totalPayments |-> ReduceAmount(latestPayments(s), 1, 0),
       presentCount  |-> presentCount,
       offCount      |-> Len(c) - presentCount,
       crewHealth    |-> crewHealthPct(presentCount, targetCrew, Len(c))]

\* Variant: the flag is raised from the first head on leave.
shortCrewFlag_fromOne(c) ==
  LET n == CountWhere(c, "status", "leave")
  IN  IF n >= 1
        THEN << "Crew short by " \o ToString(n) \o " specialist"
                  \o (IF n > 1 THEN "s" ELSE "") \o " today." >>
        ELSE << >>

shortCrewFlag(c) ==
  LET n == CountWhere(c, "status", "leave")
  IN  IF n >= 2
        THEN << "Crew short by " \o ToString(n) \o " specialist"
                  \o (IF n > 1 THEN "s" ELSE "") \o " today." >>
        ELSE << >>

\* The budget test.  dailySpend comes doubled, so budgetBurnRate does too, and
\* projectedSpend > budget * 0.4 with projectedSpend = budgetBurnRate *
\* (daysRemaining / 6) reads 5 * burn * days > 24 * budget.
budgetExposureFlag(sc, dailySpend, n) ==
  LET budgetBurnRate == dailySpend * (IF sc # NoContractor THEN 6 ELSE 1)
  IN  IF sc # NoContractor /\ budgetBurnRate # 0
        THEN LET daysRemaining == differenceInDays(parseISO(sc.endDate), n)
             IN  IF /\ daysRemaining > 0
                    /\ 5 * budgetBurnRate * daysRemaining > 24 * sc.budget
                   THEN << "Budget exposure: tighten purchase approvals." >>
                   ELSE << >>
        ELSE << >>

\* Variant: every absent record of the store counts, in scope or not.
attendanceFlag_allRecords(s) ==
  IF CountWhere(s.attendance, "presence", "absent") > 0
    THEN << "Attendance drops flagged for supervisor follow-up." >>
    ELSE << >>

attendanceFlag(s) ==
  IF CountWhere(latestAttendance(s), "presence", "absent") > 0
    THEN << "Attendance drops flagged for supervisor follow-up." >>
    ELSE << >>

\* Variant: the attendance flag is pushed before the budget flag.
keyRisks_swapped(s, n) ==
  shortCrewFlag(crew(s))
    \o attendanceFlag(s)
    \o budgetExposureFlag(selectedContractor(s), totals(s).dailySpend, n)

\* keyRisks, computed at the instant n that `new Date()` returns.
keyRisks(s, n) ==
  shortCrewFlag(crew(s))
    \o budgetExposureFlag(selectedContractor(s), totals(s).dailySpend, n)
    \o attendanceFlag(s)

\* Variant: one deduction is enough for the review.
actionSuggestions_anyDeduction(s) ==
  LET standby == CountWhere(crew(s), "status", "standby")
      deductionCount == CountWhere(latestPayments(s), "category", "deduction")
  IN  (IF standby # 0
         THEN << [title |-> "Redeploy standby crew",
                  detail |-> "Assign " \o ToString(standby) \o " standby member"
                               \o (IF standby > 1 THEN "s" ELSE "")
                               \o " to BlueWave shaft prep.",
                  category |-> "Crew"] >>
         ELSE << >>)
      \o (IF deductionCount > 0
            THEN << [title |-> "Review deductions",
                     detail |-> "Multiple deductions this week - align with contractor rep.",
                     category |-> "Finance"] >>
            ELSE << >>)
      \o << [title |-> "Daily AI brief",
             detail |-> "Use quick brief below to align contractor, labour captain, and supplier.",
             category |-> "AI Agent"] >>

actionSuggestions(s) ==
  LET standby == CountWhere(crew(s), "status", "standby")
      deductionCount == CountWhere(latestPayments(s), "category", "deduction")
  IN  (IF standby # 0
         THEN << [title |-> "Redeploy standby crew",
                  detail |-> "Assign " \o ToString(standby) \o " standby member"
                               \o (IF standby > 1 THEN "s" ELSE "")
                               \o " to BlueWave shaft prep.",
                  category |-> "Crew"] >>
         ELSE << >>)
      \o (IF deductionCount > 1
            THEN << [title |-> "Review deductions",
                     detail |-> "Multiple deductions this week - align with contractor rep.",
                     category |-> "Finance"] >>
            ELSE << >>)
      \o << [title |-> "Daily AI brief",
             detail |-> "Use quick brief below to align contractor, labour captain, and supplier.",
             category |-> "AI Agent"] >>

\* Everything the component derives in one render at instant n.
Derive(s, n) ==
  [crew              |-> crew(s),
   latestAttendance  |-> latestAttendance(s),
   latestPayments    |-> latestPayments(s),
   totals            |-> totals(s),
   keyRisks          |-> keyRisks(s, n),
   actionSuggestions |-> actionSuggestions(s)]

----------------------------------------------------------------------------
(* Rendering.  The component renders again after every store update; each   *)
(* useMemo hook keeps its value unless one of its dependencies changed.     *)

\* The instant the application is loaded: the afternoon of day 0.
loadInstant == [day |-> 0, minute |-> 900]

\* The render that follows the update from s to t, at instant n, given the
\* values held from the render before.
Rerender(held, s, t, n) ==
  LET contractorChanged == selectedContractor(t) # selectedContractor(s)
      crewChanged       == t.workers # s.workers \/ contractorChanged
      attendanceChanged == t.attendance # s.attendance \/ crewChanged
      paymentsChanged   == t.payments # s.payments \/ crewChanged
      totalsChanged     == crewChanged \/ paymentsChanged \/ contractorChanged
      newTotals         == IF totalsChanged THEN totals(t) ELSE held.totals
      risksChanged      == \/ crewChanged
                           \/ attendanceChanged
                           \/ contractorChanged
                           \/ newTotals.dailySpend # held.totals.dailySpend
      actionsChanged    == crewChanged \/ paymentsChanged
  IN  [crew              |-> IF crewChanged THEN crew(t) ELSE held.crew,
       latestAttendance  |-> IF attendanceChanged THEN latestAttendance(t)
                                                  ELSE held.latestAttendance,
       latestPayments    |-> IF paymentsChanged THEN latestPayments(t)
                                                ELSE held.latestPayments,
       totals            |-> newTotals,
       keyRisks          |-> IF risksChanged THEN keyRisks(t, n)
                                             ELSE held.keyRisks,
       actionSuggestions |-> IF actionsChanged THEN actionSuggestions(t)
                                               ELSE held.actionSuggestions]

----------------------------------------------------------------------------
(* State after construction (create(...) at module load, first render) *)

defaultAttendanceDraft ==
  [workerId |-> "", hoursWorked |-> 16, presence |-> "present",
   remarks |-> "", site |-> ""]

defaultPaymentDraft ==
  [workerId |-> "", amount |-> 5000, category |-> "advance", note |-> ""]

NoInput == [id |-> NoId]

NoCall == [op |-> "none", id |-> NoId, value |-> Undefined, uuid |-> NoId,
           input |-> NoInput]

Init ==
  /\ state = initialState
  /\ issued = {}
  /\ lastOp = NoCall
  /\ observed = initialState
  /\ draft = NoDraft
  /\ calls = 0
  /\ events = 0
  /\ pc = "idle"
  /\ record = NoRecord
  /\ attendanceDraft = defaultAttendanceDraft
  /\ paymentDraft = defaultPaymentDraft
  /\ now = loadInstant
  /\ rendered = Derive(initialState, loadInstant)

----------------------------------------------------------------------------
(* The store called directly, with any argument its signature admits *)

SelectionArgs    == {Null, "c1", "c2", "c9"}
WorkerIdArgs     == {"w1", "uuid-1", "w9"}
AttendanceIdArgs == {"a1", "uuid-1", "a9"}

AttendanceInputs ==
  { [id |-> NoId, workerId |-> "w1", date |-> "now", hoursWorked |-> 16,
     presence |-> "absent", remarks |-> Undefined, site |-> "Site"],
    [id |-> NoId, workerId |-> "w9", date |-> "now", hoursWorked |-> -4,
     presence |-> "standby", remarks |-> "late", site |-> "Site"],
    [id |-> "a1", workerId |-> "w3", date |-> "now", hoursWorked |-> 8,
     presence |-> "present", remarks |-> Undefined, site |-> "Basement shaft"] }

PaymentInputs ==
  { [id |-> NoId, workerId |-> "w1", amount |-> 700, date |-> "now",
     category |-> "deduction", note |-> Undefined],
    [id |-> NoId, workerId |-> "w9", amount |-> -300, date |-> "now",
     category |-> "bonus", note |-> "reversal"],
    [id |-> "w1", workerId |-> "w3", amount |-> 900, date |-> "now",
     category |-> "deduction", note |-> Undefined] }

WorkerInputs ==
  { [id |-> NoId, name |-> "Ravi Kumar", trade |-> "Helper", dailyRate |-> 3000,
     status |-> "leave", phone |-> Undefined, contractorId |-> "c1"],
    [id |-> NoId, name |-> "Omar Diaz", trade |-> "Welder", dailyRate |-> 4000,
     status |-> "present", phone |-> Undefined, contractorId |-> "c9"],
    [id |-> "w2", name |-> "Akash Patel", trade |-> "Welder", dailyRate |-> 4600,
     status |-> "standby", phone |-> "+91 93210 76543", contractorId |-> "c2"] }

\* set(recipe) run to completion: the next state replaces the old one and the
\* subscribers are handed it.
Transition(next, call) ==
  /\ calls' = calls + 1
  /\ state' = next
  /\ observed' = next
  /\ lastOp' = call
  /\ rendered' = Rerender(rendered, state, next, now)
  /\ UNCHANGED <<draft, now>>

Commit(next, call) ==
  /\ pc = "idle"
  /\ calls < MaxCalls
  /\ Transition(next, call)
  /\ UNCHANGED <<events, pc, record, attendanceDraft, paymentDraft>>

StoreSetSelectedContractor(id) ==
  /\ Commit(setSelectedContractor(state, id),
            [NoCall EXCEPT !.op = "setSelectedContractor", !.id = id])
  /\ UNCHANGED issued

StoreAddAttendance(uuid, input) ==
  /\ uuid \in randomUUID
  /\ issued' = issued \cup {uuid}
  /\ Commit(addAttendance(state, uuid, input),
            [NoCall EXCEPT !.op = "addAttendance", !.uuid = uuid, !.input = input])

StoreUpdateAttendancePresence(id, presence) ==
  /\ Commit(updateAttendancePresence(state, id, presence),
            [NoCall EXCEPT !.op = "updateAttendancePresence", !.id = id,
                           !.value = presence])
  /\ UNCHANGED issued

StoreAddPayment(uuid, input) ==
  /\ uuid \in randomUUID
  /\ issued' = issued \cup {uuid}
  /\ Commit(addPayment(state, uuid, input),
            [NoCall EXCEPT !.op = "addPayment", !.uuid = uuid, !.input = input])

StoreUpdateWorkerStatus(workerId, status) ==
  /\ Commit(updateWorkerStatus(state, workerId, status),
            [NoCall EXCEPT !.op = "updateWorkerStatus", !.id = workerId,
                           !.value = status])
  /\ UNCHANGED issued

StoreAddWorker(uuid, worker) ==
  /\ uuid \in randomUUID
  /\ issued' = issued \cup {uuid}
  /\ Commit(addWorker(state, uuid, worker),
            [NoCall EXCEPT !.op = "addWorker", !.uuid = uuid, !.input = worker])

Next ==
  \/ \E id \in SelectionArgs : StoreSetSelectedContractor(id)
  \/ \E uuid \in UUIDs, input \in AttendanceInputs : StoreAddAttendance(uuid, input)
  \/ \E id \in AttendanceIdArgs, presence \in LabourStatus :
       StoreUpdateAttendancePresence(id, presence)
  \/ \E uuid \in UUIDs, input \in PaymentInputs : StoreAddPayment(uuid, input)
  \/ \E workerId \in WorkerIdArgs, status \in LabourStatus :
       StoreUpdateWorkerStatus(workerId, status)
  \/ \E uuid \in UUIDs, worker \in WorkerInputs : StoreAddWorker(uuid, worker)

Spec == Init /\ [][Next]_vars

----------------------------------------------------------------------------
(* The store called directly while time passes *)

\* The instants the clock is read at: the load, the next midnight, and an
\* afternoon after both seeded contracts have ended.
Instants ==
  { loadInstant,
    [day |-> 1, minute |-> 0],
    [day |-> parseISO("month+2:0").day + 1, minute |-> 900] }

\* Time passes: nothing is called and nothing is rendered.
Tick(n) ==
  /\ pc = "idle"
  /\ compareLocalAsc(n, now) = 1
  /\ now' = n
  /\ UNCHANGED <<state, issued, lastOp, observed, draft, calls, events, pc,
                 record, attendanceDraft, paymentDraft, rendered>>

NextClock ==
  \/ Next
  \/ \E n \in Instants : Tick(n)

SpecClock == Init /\ [][NextClock]_vars

----------------------------------------------------------------------------
(* The dashboard's event handlers *)

\* The <option> values of the contractor select.
ContractorOptions(s) == { s.contractors[i].id : i \in 1..Len(s.contractors) }

\* The <option> values of the two forms' crew selects.
CrewOptions(s) == {""} \cup { crew(s)[k].id : k \in 1..Len(crew(s)) }

\* Number(event.target.value) for what is typed into the number inputs; the
\* inputs' min and max attributes do not stop a value from being typed.
HoursTyped  == {-4}
AmountTyped == {-300, 0}

\* What is picked in the payment form's category select and typed into the
\* text boxes.
CategoryChosen == {"deduction", "bonus"}

SiteTyped    == {"Tower B shaft"}
RemarksTyped == {" ok "}
NoteTyped    == {"ref 12"}

\* String.prototype.trim on the strings the remarks box holds here.
Trim(str) ==
  CASE str = " ok " -> "ok"
    [] OTHER        -> str

\* A handler that only sets component state.
Edit(newAttendanceDraft, newPaymentDraft) ==
  /\ pc = "idle"
  /\ events < MaxEvents
  /\ events' = events + 1
  /\ attendanceDraft' = newAttendanceDraft
  /\ paymentDraft' = newPaymentDraft
  /\ UNCHANGED <<state, issued, lastOp, observed, draft, calls, pc, record,
                 now, rendered>>

\* A handler that makes one store call and sets no component state.
Click(next, call) ==
  /\ pc = "idle"
  /\ events < MaxEvents
  /\ events' = events + 1
  /\ Transition(next, call)
  /\ UNCHANGED <<issued, pc, record, attendanceDraft, paymentDraft>>

contractorSelectOnChange(value) ==
  /\ value \in ContractorOptions(state)
  /\ Click(setSelectedContractor(state, value),
           [NoCall EXCEPT !.op = "setSelectedContractor", !.id = value])

fillQuickLogOnClick ==
  /\ Len(crew(state)) > 0
  /\ Edit([attendanceDraft EXCEPT !.workerId = crew(state)[1].id], paymentDraft)

statusButtonOnClick(k, status) ==
  /\ k \in 1..Len(crew(state))
  /\ Click(updateWorkerStatus(state, crew(state)[k].id, status),
           [NoCall EXCEPT !.op = "updateWorkerStatus", !.id = crew(state)[k].id,
                          !.value = status])

\* Variant: the test is for absent, so leave and standby become absent.
togglePresenceOnClick_fromAbsent(k) ==
  /\ k \in 1..Len(latestAttendance(state))
  /\ k <= 6
  /\ LET rec == latestAttendance(state)[k]
         presence == IF rec.presence = "absent" THEN "present" ELSE "absent"
     IN  Click(updateAttendancePresence(state, rec.id, presence),
               [NoCall EXCEPT !.op = "updateAttendancePresence", !.id = rec.id,
                              !.value = presence])

togglePresenceOnClick(k) ==
  /\ k \in 1..Len(latestAttendance(state))
  /\ k <= 6
  /\ LET rec == latestAttendance(state)[k]
         presence == IF rec.presence = "present" THEN "absent" ELSE "present"
     IN  Click(updateAttendancePresence(state, rec.id, presence),
               [NoCall EXCEPT !.op = "updateAttendancePresence", !.id = rec.id,
                              !.value = presence])

attendanceFormOnChange ==
  \/ \E v \in CrewOptions(state) :
       Edit([attendanceDraft EXCEPT !.workerId = v], paymentDraft)
  \/ \E v \in HoursTyped :
       Edit([attendanceDraft EXCEPT !.hoursWorked = v], paymentDraft)
  \/ \E v \in LabourStatus :
       Edit([attendanceDraft EXCEPT !.presence = v], paymentDraft)
  \/ \E v \in SiteTyped :
       Edit([attendanceDraft EXCEPT !.site = v], paymentDraft)
  \/ \E v \in RemarksTyped :
       Edit([attendanceDraft EXCEPT !.remarks = v], paymentDraft)

paymentFormOnChange ==
  \/ \E v \in CrewOptions(state) :
       Edit(attendanceDraft, [paymentDraft EXCEPT !.workerId = v])
  \/ \E v \in AmountTyped :
       Edit(attendanceDraft, [paymentDraft EXCEPT !.amount = v])
  \/ \E v \in CategoryChosen :
       Edit(attendanceDraft, [paymentDraft EXCEPT !.category = v])
  \/ \E v \in NoteTyped :
       Edit(attendanceDraft, [paymentDraft EXCEPT !.note = v])

\* Variant: the record and the worker's status are written in one transition.
handleAddAttendance_atomic(uuid) ==
  /\ pc = "idle"
  /\ attendanceDraft.workerId # ""
  /\ events < MaxEvents
  /\ events' = events + 1
  /\ uuid \in randomUUID
  /\ LET sc  == selectedContractor(state)
         rec == [id          |-> NoId,
                 workerId    |-> attendanceDraft.workerId,
                 date        |-> "now",
                 hoursWorked |-> attendanceDraft.hoursWorked,
                 presence    |-> attendanceDraft.presence,
                 remarks     |-> IF Trim(attendanceDraft.remarks) # ""
                                   THEN Trim(attendanceDraft.remarks)
                                   ELSE Undefined,
                 site        |-> IF attendanceDraft.site # ""
                                   THEN attendanceDraft.site
                                   ELSE IF sc # NoContractor THEN sc.scope
                                   ELSE "Site"]
     IN  /\ record' = rec
         /\ Transition(updateWorkerStatus(addAttendance(state, uuid, rec),
                                          rec.workerId, rec.presence),
                       [NoCall EXCEPT !.op = "addAttendance", !.uuid = uuid,
                                      !.input = rec])
  /\ issued' = issued \cup {uuid}
  /\ pc' = "updateWorkerStatus"
  /\ UNCHANGED <<attendanceDraft, paymentDraft>>

\* handleAddAttendance up to and including addAttendance(record).
handleAddAttendance(uuid) ==
  /\ pc = "idle"
  /\ attendanceDraft.workerId # ""
  /\ events < MaxEvents
  /\ events' = events + 1
  /\ uuid \in randomUUID
  /\ LET sc  == selectedContractor(state)
         rec == [id          |-> NoId,
                 workerId    |-> attendanceDraft.workerId,
                 date        |-> "now",
                 hoursWorked |-> attendanceDraft.hoursWorked,
                 presence    |-> attendanceDraft.presence,
                 remarks     |-> IF Trim(attendanceDraft.remarks) # ""
                                   THEN Trim(attendanceDraft.remarks)
                                   ELSE Undefined,
                 site        |-> IF attendanceDraft.site # ""
                                   THEN attendanceDraft.site
                                   ELSE IF sc # NoContractor THEN sc.scope
                                   ELSE "Site"]
     IN  /\ record' = rec
         /\ Transition(addAttendance(state, uuid, rec),
                       [NoCall EXCEPT !.op = "addAttendance", !.uuid = uuid,
                                      !.input = rec])
  /\ issued' = issued \cup {uuid}
  /\ pc' = "updateWorkerStatus"
  /\ UNCHANGED <<attendanceDraft, paymentDraft>>

\* The rest of handleAddAttendance: updateWorkerStatus and the draft's reset.
handleAddAttendanceStatus ==
  /\ pc = "updateWorkerStatus"
  /\ Transition(updateWorkerStatus(state, record.workerId, record.presence),
                [NoCall EXCEPT !.op = "updateWorkerStatus", !.id = record.workerId,
                               !.value = record.presence])
  /\ attendanceDraft' = [defaultAttendanceDraft EXCEPT !.workerId = record.workerId]
  /\ record' = NoRecord
  /\ pc' = "idle"
  /\ UNCHANGED <<issued, events, paymentDraft>>

\* `if (!attendanceDraft.workerId) return;`
handleAddAttendanceReturn ==
  /\ pc = "idle"
  /\ attendanceDraft.workerId = ""
  /\ UNCHANGED vars

handleAddPayment(uuid) ==
  /\ paymentDraft.workerId # ""
  /\ paymentDraft.amount # 0
  /\ uuid \in randomUUID
  /\ issued' = issued \cup {uuid}
  /\ LET input == [id       |-> NoId,
                   workerId |-> paymentDraft.workerId,
                   amount   |-> paymentDraft.amount,
                   date     |-> "now",
                   category |-> paymentDraft.category,
                   note     |-> IF paymentDraft.note # "" THEN paymentDraft.note
                                ELSE Undefined]
     IN  /\ pc = "idle"
         /\ events < MaxEvents
         /\ events' = events + 1
         /\ Transition(addPayment(state, uuid, input),
                       [NoCall EXCEPT !.op = "addPayment", !.uuid = uuid,
                                      !.input = input])
  /\ paymentDraft' = [defaultPaymentDraft EXCEPT !.workerId = paymentDraft.workerId]
  /\ UNCHANGED <<pc, record, attendanceDraft>>

\* `if (!paymentDraft.workerId || !paymentDraft.amount) return;`
handleAddPaymentReturn ==
  /\ pc = "idle"
  /\ paymentDraft.workerId = "" \/ paymentDraft.amount = 0
  /\ UNCHANGED vars

NextUI ==
  \/ \E value \in {"c1", "c2"} : contractorSelectOnChange(value)
  \/ fillQuickLogOnClick
  \/ \E k \in 1..4, status \in LabourStatus : statusButtonOnClick(k, status)
  \/ \E k \in 1..6 : togglePresenceOnClick(k)
  \/ attendanceFormOnChange
  \/ paymentFormOnChange
  \/ \E uuid \in UUIDs : handleAddAttendance(uuid)
  \/ handleAddAttendanceStatus
  \/ handleAddAttendanceReturn
  \/ \E uuid \in UUIDs : handleAddPayment(uuid)
  \/ handleAddPaymentReturn

SpecUI == Init /\ [][NextUI]_vars

----------------------------------------------------------------------------
(* One store call in steps: set(recipe) under the immer middleware.  The    *)
(* recipe works on a draft of the state; when it returns, the finished     *)
(* draft replaces the state and the subscribers are called with it.        *)

\* The recipe of a call, applied to s.
ApplyCall(s, c) ==
  CASE c.op = "setSelectedContractor"    -> setSelectedContractor(s, c.id)
    [] c.op = "addAttendance"            -> addAttendance(s, c.uuid, c.input)
    [] c.op = "updateAttendancePresence" -> updateAttendancePresence(s, c.id, c.value)
    [] c.op = "addPayment"               -> addPayment(s, c.uuid, c.input)
    [] c.op = "updateWorkerStatus"       -> updateWorkerStatus(s, c.id, c.value)
    [] c.op = "addWorker"                -> addWorker(s, c.uuid, c.input)

\* The calls of Next, as data.
StoreCalls ==
  { [NoCall EXCEPT !.op = "setSelectedContractor", !.id = id] :
      id \in SelectionArgs }
  \cup { [NoCall EXCEPT !.op = "addAttendance", !.input = input] :
      input \in AttendanceInputs }
  \cup { [NoCall EXCEPT !.op = "updateAttendancePresence", !.id = id,
                        !.value = presence] :
      id \in AttendanceIdArgs, presence \in LabourStatus }
  \cup { [NoCall EXCEPT !.op = "addPayment", !.input = input] :
      input \in PaymentInputs }
  \cup { [NoCall EXCEPT !.op = "updateWorkerStatus", !.id = id, !.value = status] :
      id \in WorkerIdArgs, status \in LabourStatus }
  \cup { [NoCall EXCEPT !.op = "addWorker", !.input = input] :
      input \in WorkerInputs }

NeedsUuid(c) == c.op \in {"addAttendance", "addPayment", "addWorker"}

\* The operation is called: set() hands the recipe a draft of the state.
SetBegin(c) ==
  /\ pc = "idle"
  /\ calls < MaxCalls
  /\ NeedsUuid(c) => randomUUID # {}
  /\ lastOp' = c
  /\ draft' = state
  /\ pc' = "recipe"
  /\ UNCHANGED <<state, issued, observed, calls, events, record,
                 attendanceDraft, paymentDraft, now, rendered>>

\* Variant: the recipe writes to the state itself instead of the draft.
SetRecipe_inPlace(uuid) ==
  /\ pc = "recipe"
  /\ IF NeedsUuid(lastOp)
       THEN /\ uuid \in randomUUID
            /\ issued' = issued \cup {uuid}
            /\ lastOp' = [lastOp EXCEPT !.uuid = uuid]
       ELSE /\ uuid = NoId
            /\ UNCHANGED <<issued, lastOp>>
  /\ state' = ApplyCall(state, lastOp')
  /\ draft' = state'
  /\ pc' = "commit"
  /\ UNCHANGED <<observed, calls, events, record,
                 attendanceDraft, paymentDraft, now, rendered>>

\* The recipe body runs on the draft.
SetRecipe(uuid) ==
  /\ pc = "recipe"
  /\ IF NeedsUuid(lastOp)
       THEN /\ uuid \in randomUUID
            /\ issued' = issued \cup {uuid}
            /\ lastOp' = [lastOp EXCEPT !.uuid = uuid]
       ELSE /\ uuid = NoId
            /\ UNCHANGED <<issued, lastOp>>
  /\ draft' = ApplyCall(draft, lastOp')
  /\ pc' = "commit"
  /\ UNCHANGED <<state, observed, calls, events, record,
                 attendanceDraft, paymentDraft, now, rendered>>

\* The finished draft becomes the state and the subscribers are called.
SetCommit ==
  /\ pc = "commit"
  /\ state' = draft
  /\ observed' = draft
  /\ draft' = NoDraft
  /\ calls' = calls + 1
  /\ pc' = "idle"
  /\ rendered' = Rerender(rendered, state, draft, now)
  /\ UNCHANGED <<issued, lastOp, events, record,
                 attendanceDraft, paymentDraft, now>>

NextSet ==
  \/ \E c \in StoreCalls : SetBegin(c)
  \/ \E uuid \in UUIDs \cup {NoId} : SetRecipe(uuid)
  \/ SetCommit

SpecSet == Init /\ [][NextSet]_vars

----------------------------------------------------------------------------
(* Properties of the store *)

Ids(seq) == [i \in 1..Len(seq) |-> seq[i].id]

AllIds(s) ==
  Ids(s.contractors) \o Ids(s.workers) \o Ids(s.attendance) \o Ids(s.payments)

Distinct(seq) == \A i, j \in 1..Len(seq) : i # j => seq[i] # seq[j]

\* The entry the most recent add call inserted.
Inserted(s) ==
  CASE lastOp.op = "addAttendance" -> Head(s.attendance)
    [] lastOp.op = "addPayment"    -> Head(s.payments)
    [] lastOp.op = "addWorker"     -> s.workers[Len(s.workers)]

IsAdd(op) == op \in {"addAttendance", "addPayment", "addWorker"}

\* e is the input record r with an id put on it.
Carries(e, r) == [e EXCEPT !.id = NoId] = [r EXCEPT !.id = NoId]

\* A step that is one completed store call.
StoreCall == calls' # calls

\* C1: all ids of the four collections are pairwise distinct, and the entry an
\* add call has just inserted carries the id the generator synthesized for
\* that call, never one taken from the caller's record.
C1_UniqueSynthesizedIds ==
  /\ Distinct(AllIds(state))
  /\ IsAdd(lastOp.op) => Inserted(state).id = lastOp.uuid

\* C2: addAttendance and addPayment put the new record in front of the
\* unchanged old collection, addWorker puts it behind the unchanged old
\* collection; two addAttendance calls r1, r2 in a row leave r2, r1 in front
\* and two addWorker calls w1, w2 in a row leave w1, w2 at the end.
C2_InsertionOrder ==
  [][ StoreCall =>
      LET s == state  t == state'  c == lastOp'  b == lastOp
          n == Len(t.workers)
      IN  /\ c.op = "addAttendance" =>
               /\ Carries(Head(t.attendance), c.input)
               /\ Tail(t.attendance) = s.attendance
               /\ b.op = "addAttendance" =>
                    /\ Carries(t.attendance[1], c.input)
                    /\ Carries(t.attendance[2], b.input)
          /\ c.op = "addPayment" =>
               /\ Carries(Head(t.payments), c.input)
               /\ Tail(t.payments) = s.payments
               /\ b.op = "addPayment" =>
                    /\ Carries(t.payments[1], c.input)
                    /\ Carries(t.payments[2], b.input)
          /\ c.op = "addWorker" =>
               /\ Carries(t.workers[n], c.input)
               /\ SubSeq(t.workers, 1, n - 1) = s.workers
               /\ b.op = "addWorker" =>
                    /\ Carries(t.workers[n - 1], b.input)
                    /\ Carries(t.workers[n], c.input) ]_vars

C2_Witness ==
  /\ lastOp.op = "addAttendance"
  /\ Len(state.attendance) = Len(initialAttendance) + 2
  /\ Carries(state.attendance[1], lastOp.input)
  /\ SubSeq(state.attendance, 3, Len(state.attendance)) = initialAttendance

\* C3: updateWorkerStatus with an id no worker has, and
\* updateAttendancePresence with an id no attendance record has, leave the
\* whole store state as it was, whatever the status or presence argument.
C3_UnknownIdNoOp ==
  [][ StoreCall =>
      LET c == lastOp'
      IN  /\ (c.op = "updateWorkerStatus" /\ FindIndex(state.workers, c.id) = 0)
               => state' = state
          /\ (c.op = "updateAttendancePresence"
                /\ FindIndex(state.attendance, c.id) = 0)
               => state' = state ]_vars

C3_Witness ==
  /\ lastOp.op = "updateWorkerStatus"
  /\ FindIndex(state.workers, lastOp.id) = 0
  /\ lastOp.value = "absent"
  /\ state # initialState

\* C4 as stated: selectedContractorId is null or the id of a contractor.
ContractorIdsOf(s) == { s.contractors[i].id : i \in 1..Len(s.contractors) }

CursorValid(s) == s.selectedContractorId \in {Null} \cup ContractorIdsOf(s)

C4_CursorValid == CursorValid(state)

\* C4, amended: only setSelectedContractor changes selectedContractorId, and
\* it stores its argument whatever that is; so selectedContractorId stays
\* null or a contractor's id across every call except a setSelectedContractor
\* whose argument is neither.
C4_CursorAsGiven ==
  [][ StoreCall =>
      LET c == lastOp'
      IN  /\ c.op = "setSelectedContractor" => state'.selectedContractorId = c.id
          /\ c.op # "setSelectedContractor" =>
               state'.selectedContractorId = state.selectedContractorId
          /\ ( /\ CursorValid(state)
               /\ c.op = "setSelectedContractor" =>
                    c.id \in {Null} \cup ContractorIdsOf(state) )
               => CursorValid(state') ]_vars

C4_Witness ==
  /\ lastOp.op = "setSelectedContractor"
  /\ lastOp.id = Null
  /\ state.selectedContractorId = Null
  /\ calls > 1

\* C5: every attendance record has hoursWorked >= 0 and every payment has
\* amount >= 0, whatever the forms' drafts held when the record was made.
C5_NonNegative ==
  /\ \A i \in 1..Len(state.attendance) : state.attendance[i].hoursWorked >= 0
  /\ \A i \in 1..Len(state.payments) : state.payments[i].amount >= 0

\* C8: subscribers have always been handed the current state; the state
\* changes only in the step that completes a call, and then to the result of
\* that call's whole recipe; while a call is running no other call starts.
C8_AtomicCalls ==
  [][ /\ observed' = state'
      /\ state' # state =>
           /\ pc = "commit" /\ pc' = "idle"
           /\ state' = ApplyCall(state, lastOp)
      /\ pc # "idle" =>
           /\ [lastOp' EXCEPT !.uuid = NoId] = [lastOp EXCEPT !.uuid = NoId]
           /\ pc' # "recipe"
      /\ calls' # calls => (pc = "commit" /\ calls' = calls + 1) ]_vars

C8_Witness ==
  /\ pc = "commit"
  /\ lastOp.op = "addAttendance"
  /\ draft # state
  /\ observed = state
  /\ calls > 0

\* C6: no transition removes an entry or changes an entry's id; contractors
\* never change; an existing worker changes at most in status, an existing
\* attendance record at most in presence, an existing payment not at all.
C6_AppendOnly ==
  [][ LET s == state  t == state'
          da == Len(t.attendance) - Len(s.attendance)
          dp == Len(t.payments) - Len(s.payments)
      IN  /\ t.contractors = s.contractors
          /\ Len(t.workers) >= Len(s.workers)
          /\ \A i \in 1..Len(s.workers) :
               /\ t.workers[i].id = s.workers[i].id
               /\ [t.workers[i] EXCEPT !.status = s.workers[i].status] = s.workers[i]
          /\ da >= 0
          /\ \A i \in 1..Len(s.attendance) :
               /\ t.attendance[i + da].id = s.attendance[i].id
               /\ [t.attendance[i + da] EXCEPT !.presence = s.attendance[i].presence]
                    = s.attendance[i]
          /\ dp >= 0
          /\ \A i \in 1..Len(s.payments) : t.payments[i + dp] = s.payments[i] ]_vars

C6_Witness ==
  /\ Len(state.payments) = Len(initialPayments) + 1
  /\ state.workers[1].status # initialWorkers[1].status
  /\ state.attendance[1].presence # initialAttendance[1].presence

\* C7: each store call changes only its own target: the cursor, the
\* attendance collection, the payments or the workers; a presence update of
\* a record that is found changes the presence of that record alone and no
\* worker's status.
Only(s, t, field) ==
  \A f \in {"contractors", "workers", "attendance", "payments",
            "selectedContractorId"} : f # field => t[f] = s[f]

C7_Frame ==
  [][ StoreCall =>
      LET s == state  t == state'  c == lastOp'
          i == FindIndex(s.attendance, c.id)
      IN  /\ c.op = "setSelectedContractor" => Only(s, t, "selectedContractorId")
          /\ c.op \in {"addAttendance", "updateAttendancePresence"}
               => Only(s, t, "attendance")
          /\ c.op = "addPayment" => Only(s, t, "payments")
          /\ c.op \in {"addWorker", "updateWorkerStatus"} => Only(s, t, "workers")
          /\ (c.op = "updateAttendancePresence" /\ i # 0) =>
               /\ t.attendance = [s.attendance EXCEPT ![i].presence = c.value]
               /\ t.workers = s.workers ]_vars

C7_Witness ==
  LET i == FindIndex(state.attendance, lastOp.id)
      w == IF i # 0 THEN FindIndex(state.workers, state.attendance[i].workerId)
           ELSE 0
  IN  /\ lastOp.op = "updateAttendancePresence"
      /\ i # 0
      /\ w # 0
      /\ state.attendance[i].presence = lastOp.value
      /\ state.workers[w].status # lastOp.value

----------------------------------------------------------------------------
(* Properties of the derivations *)

WorkersOf(s, contractorId) ==
  LET Keep(worker) == worker.contractorId = contractorId
  IN  SelectSeq(s.workers, Keep)

\* C9 as stated: the crew is the workers whose contractorId equals
\* selectedContractorId when that is not null, and all workers when it is.
C9_CrewByCursor ==
  crew(state) = IF state.selectedContractorId # Null
                  THEN WorkersOf(state, state.selectedContractorId)
                  ELSE state.workers

\* C9, amended: the crew is the workers whose contractorId equals
\* selectedContractorId when that is the id of a contractor, and all workers
\* when it is null or the id of no contractor; a worker whose contractorId is
\* the id of no contractor is in no selected contractor's crew.
C9_CrewByContractor ==
  LET sel == state.selectedContractorId
      c   == crew(state)
  IN  /\ sel \in ContractorIdsOf(state) => c = WorkersOf(state, sel)
      /\ sel \notin ContractorIdsOf(state) => c = state.workers
      /\ sel \in ContractorIdsOf(state) =>
           \A k \in 1..Len(c) : c[k].contractorId \in ContractorIdsOf(state)

C9_Witness ==
  /\ state.selectedContractorId = "c9"
  /\ \E i \in 1..Len(state.workers) : state.workers[i].contractorId = "c9"
  /\ crew(state) = state.workers

\* The k-th smallest element of a set of indices.
Kth(S, k) == CHOOSE i \in S : Cardinality({j \in S : j < i}) = k - 1

\* res is exactly the entries of seq whose workerId is in ids, in seq's order.
ExactlyThoseInOrder(res, seq, ids) ==
  LET keep == { i \in 1..Len(seq) : seq[i].workerId \in ids }
  IN  /\ Len(res) = Cardinality(keep)
      /\ \A k \in 1..Len(res) : res[k] = seq[Kth(keep, k)]

CrewIds(s) == { crew(s)[k].id : k \in 1..Len(crew(s)) }

WorkerIds(s) == { s.workers[i].id : i \in 1..Len(s.workers) }

\* C10: attendanceInScope is exactly the attendance records whose workerId is
\* the id of a crew member and paymentsInScope exactly such payments, both in
\* store order; a record whose workerId is no worker's id is in neither.
C10_ScopedLogs ==
  LET a  == latestAttendance(state)
      py == latestPayments(state)
  IN  /\ ExactlyThoseInOrder(a, state.attendance, CrewIds(state))
      /\ ExactlyThoseInOrder(py, state.payments, CrewIds(state))
      /\ \A k \in 1..Len(a) : a[k].workerId \in WorkerIds(state)
      /\ \A k \in 1..Len(py) : py[k].workerId \in WorkerIds(state)

C10_Witness ==
  /\ \E i \in 1..Len(state.attendance) :
       state.attendance[i].workerId \notin WorkerIds(state)
  /\ Len(latestAttendance(state)) \in 1..(Len(state.attendance) - 2)
  /\ Len(crew(state)) < Len(state.workers)

----------------------------------------------------------------------------
(* Properties of the derived values *)

\* The sum of f[i] over the i in S.
RECURSIVE Sum(_, _)
Sum(f, S) ==
  IF S = {} THEN 0
  ELSE LET i == CHOOSE j \in S : TRUE
       IN  f[i] + Sum(f, S \ {i})

WithStatus(c, status) == { k \in 1..Len(c) : c[k].status = status }

\* C11: dailySpend is the sum over the crew of dailyRate times the weight of
\* the status (present 1, standby 0.5, leave 0, absent 0): doubled, twice the
\* rates of the present members plus the rates of those on standby, and
\* nothing for leave and absent.  totalPayments is the sum of amount over the
\* payments in scope.  The crew [4200 present, 4600 present, 5800 leave, 3600
\* standby] gives 10600 (doubled, 21200).  dailySpend is the same whatever the
\* attendance log holds.
C11_Totals ==
  LET c     == crew(state)
      py    == latestPayments(state)
      rate  == [k \in 1..Len(c) |-> c[k].dailyRate]
      t     == totals(state)
  IN  /\ t.dailySpend = 2 * Sum(rate, WithStatus(c, "present"))
                          + Sum(rate, WithStatus(c, "standby"))
      /\ t.totalPayments = Sum([k \in 1..Len(py) |-> py[k].amount], 1..Len(py))
      /\ [k \in 1..Len(c) |-> <<c[k].dailyRate, c[k].status>>]
           = << <<4200, "present">>, <<4600, "present">>,
                <<5800, "leave">>, <<3600, "standby">> >>
         => t.dailySpend = 2 * 10600
      /\ \A log \in {<< >>, initialAttendance, state.attendance \o initialAttendance} :
           totals([state EXCEPT !.attendance = log]).dailySpend = t.dailySpend

\* The four seeded workers form the crew, one of them on leave and one on
\* standby, with payments in scope and an attendance log that has changed.
C11_Witness ==
  /\ state.selectedContractorId = Null
  /\ state.workers = initialWorkers
  /\ state.attendance # initialAttendance
  /\ Len(latestPayments(state)) >= 3
  /\ totals(state).dailySpend = 21200

\* h is the whole number nearest to 100 * p / target, a half going upwards.
NearestPct(h, p, target) ==
  /\ 2 * target * h <= 200 * p + target
  /\ 200 * p + target < 2 * target * (h + 1)

\* C12: presentCount is the number of crew members whose status is present
\* and offCount the rest of the crew.  crewHealth is 0 for an empty crew and
\* otherwise presentCount / target * 100 rounded, the target being the
\* selected contractor's crewSizeTarget, or the size of the crew when no
\* contractor is selected; 6 present against a target of 12 is 50, and
\* with no contractor selected the value lies between 0 and 100.
C12_CrewHealth ==
  LET c      == crew(state)
      sc     == selectedContractor(state)
      t      == totals(state)
      target == IF sc = NoContractor THEN Len(c) ELSE sc.crewSizeTarget
  IN  /\ t.presentCount = Cardinality(WithStatus(c, "present"))
      /\ t.offCount = Len(c) - t.presentCount
      /\ Len(c) = 0 => t.crewHealth = 0
      /\ Len(c) # 0 => NearestPct(t.crewHealth, t.presentCount, target)
      /\ sc = NoContractor => t.crewHealth \in 0..100
      /\ \A size \in 0..12 : \A present \in 0..size :
           /\ crewHealthPct(present, 12, 0) = 0
           /\ size # 0 => NearestPct(crewHealthPct(present, 12, size), present, 12)
           /\ size # 0 => NearestPct(crewHealthPct(present, size, size), present, size)
           /\ size # 0 => crewHealthPct(present, size, size) \in 0..100
           /\ (present = 6 /\ size # 0) => crewHealthPct(present, 12, size) = 50

\* Skyline is selected and its crew has grown to three, two of them present:
\* two in twelve is 16.67 percent, shown as 17.
C12_Witness ==
  /\ state.selectedContractorId = "c1"
  /\ Len(crew(state)) = 3
  /\ totals(state).presentCount = 2
  /\ totals(state).offCount = 1
  /\ totals(state).crewHealth = 17

BudgetText == "Budget exposure: tighten purchase approvals."

Emits(flags, text) == \E k \in 1..Len(flags) : flags[k] = text

\* projectedSpend = (dailySpend * 6) * (days / 6) is strictly greater than
\* budget * 0.4, dailySpend being doubled.
Exposed(dailySpend, days, budget) == 5 * dailySpend * days > 4 * budget

\* C13, as stated: with a contractor selected the budget flag is emitted
\* exactly when daysRemaining, the end date minus today's date, is greater
\* than 0 and the projected spend is strictly greater than 0.4 of the budget;
\* it is never emitted with no contractor selected.
C13_BudgetExposure ==
  LET sc   == selectedContractor(state)
      flag == Emits(keyRisks(state, now), BudgetText)
      daysRemaining == parseISO(sc.endDate).day - now.day
  IN  IF sc = NoContractor
        THEN ~flag
        ELSE flag <=> /\ daysRemaining > 0
                      /\ Exposed(totals(state).dailySpend, daysRemaining, sc.budget)

\* The full days from the instant n to the start of the day endDay.
FullDays(endDay, n) ==
  IF endDay > n.day /\ n.minute > 0 THEN endDay - n.day - 1 ELSE endDay - n.day

\* A contractor like Skyline with another budget.
Budgeted(budget) == [initialContractors[1] EXCEPT !.budget = budget]

\* C13, amended: the same with daysRemaining the number of full days from
\* now to the start of the end date, which is one less than the difference
\* of the dates once today's midnight has passed.  For a budget of 100000
\* and 30 days remaining a dailySpend of 1000 gives no flag and one of 1500
\* gives the flag.
C13_BudgetExposureFullDays ==
  LET sc   == selectedContractor(state)
      flag == Emits(keyRisks(state, now), BudgetText)
      daysRemaining == FullDays(parseISO(sc.endDate).day, now)
      thirty == [day |-> parseISO("month+2:0").day - 30, minute |-> 0]
  IN  /\ IF sc = NoContractor
           THEN ~flag
           ELSE flag <=> /\ daysRemaining > 0
                         /\ Exposed(totals(state).dailySpend, daysRemaining, sc.budget)
      /\ differenceInDays(parseISO("month+2:0"), thirty) = 30
      /\ budgetExposureFlag(Budgeted(100000), 2 * 1000, thirty) = << >>
      /\ budgetExposureFlag(Budgeted(100000), 2 * 1500, thirty) = << BudgetText >>
      /\ \A budget \in {95000, 100000} :
         \A dailySpend \in {0, 2666, 2667} :
         \A n \in {loadInstant, thirty} :
           /\ budgetExposureFlag(NoContractor, dailySpend, n) = << >>
           /\ budgetExposureFlag(Budgeted(budget), dailySpend, n) = << BudgetText >>
                <=> /\ FullDays(parseISO("month+2:0").day, n) > 0
                    /\ Exposed(dailySpend, FullDays(parseISO("month+2:0").day, n),
                               budget)

\* BlueWave is selected on the afternoon of the load: its end date is 22
\* dates but only 21 full days away, and the flag the dates would have raised
\* is not there.
C13_Witness ==
  /\ state.selectedContractorId = "c2"
  /\ now = loadInstant
  /\ parseISO(selectedContractor(state).endDate).day - now.day = 22
  /\ calls > 0
  /\ Exposed(totals(state).dailySpend, 22, 95000)
  /\ ~Exposed(totals(state).dailySpend, 21, 95000)
  /\ ~Emits(keyRisks(state, now), BudgetText)

\* The short-crew text for a count of n, in the singular and in the plural.
ShortCrewTexts(n) ==
  { "Crew short by " \o ToString(n) \o " specialist" \o suffix \o " today." :
      suffix \in {"", "s"} }

\* C14: the short-crew flag is emitted exactly when at least 2 crew members
\* have status leave, and it names that number; with 2 on leave it is there,
\* with 1 it is not, and workers on leave outside the crew do not count.
C14_ShortCrew ==
  LET flags == keyRisks(state, now)
      n     == Cardinality(WithStatus(crew(state), "leave"))
  IN  /\ n >= 2 => Emits(flags, "Crew short by " \o ToString(n)
                                  \o " specialists today.")
      /\ n = 2 => flags[1] = "Crew short by 2 specialists today."
      /\ \A m \in 0..Len(state.workers) : \A text \in ShortCrewTexts(m) :
           Emits(flags, text) => (m = n /\ n >= 2)

\* Two of Skyline's crew are on leave and so is a worker of the other
\* contractor: the flag names 2.
C14_Witness ==
  /\ state.selectedContractorId = "c1"
  /\ Cardinality(WithStatus(crew(state), "leave")) = 2
  /\ Cardinality(WithStatus(state.workers, "leave")) = 3
  /\ Emits(keyRisks(state, now), "Crew short by 2 specialists today.")

AttendanceText == "Attendance drops flagged for supervisor follow-up."

\* C15: the attendance flag is emitted exactly when at least one attendance
\* record of a crew member has presence absent, and once however many there
\* are; an absent record of a worker outside the crew, or a crew member whose
\* status is absent with no such record, does not bring it.
C15_AttendanceFlag ==
  LET flags  == keyRisks(state, now)
      absent == { i \in 1..Len(state.attendance) :
                    /\ state.attendance[i].workerId \in CrewIds(state)
                    /\ state.attendance[i].presence = "absent" }
  IN  Cardinality({ k \in 1..Len(flags) : flags[k] = AttendanceText })
        = IF absent # {} THEN 1 ELSE 0

\* Two absent records of Skyline's crew, one flag.
C15_Witness ==
  /\ state.selectedContractorId = "c1"
  /\ CountWhere(latestAttendance(state), "presence", "absent") = 2
  /\ Cardinality({ k \in 1..Len(keyRisks(state, now)) :
                     keyRisks(state, now)[k] = AttendanceText }) = 1

\* C16: the list of suggestions always ends with the constant brief, so it is
\* never empty; the redeployment suggestion, carrying the standby count, is
\* in it exactly when a crew member is on standby, and the deduction review
\* exactly when more than one payment in scope is a deduction; the order is
\* redeployment, deduction review, brief.
C16_Suggestions ==
  LET items      == actionSuggestions(state)
      standby    == Cardinality(WithStatus(crew(state), "standby"))
      deductions == { i \in 1..Len(state.payments) :
                        /\ state.payments[i].workerId \in CrewIds(state)
                        /\ state.payments[i].category = "deduction" }
  IN  /\ [k \in 1..Len(items) |-> items[k].title]
           = (IF standby >= 1 THEN << "Redeploy standby crew" >> ELSE << >>)
               \o (IF Cardinality(deductions) > 1
                     THEN << "Review deductions" >> ELSE << >>)
               \o << "Daily AI brief" >>
      /\ items[Len(items)]
           = [title |-> "Daily AI brief",
              detail |-> "Use quick brief below to align contractor, labour captain, and supplier.",
              category |-> "AI Agent"]
      /\ standby = 1 =>
           items[1].detail = "Assign 1 standby member to BlueWave shaft prep."
      /\ standby > 1 =>
           items[1].detail = "Assign " \o ToString(standby)
                               \o " standby members to BlueWave shaft prep."

\* One on standby and two deductions in scope: all three suggestions.
C16_Witness ==
  /\ Cardinality(WithStatus(crew(state), "standby")) = 1
  /\ CountWhere(latestPayments(state), "category", "deduction") = 2
  /\ Len(actionSuggestions(state)) = 3
  /\ actionSuggestions(state)[1].detail
       = "Assign 1 standby member to BlueWave shaft prep."

\* C18: the derived values are never stale.  After every completed store
\* call and after every change of the clock, the crew, the totals, the risk
\* flags and the action suggestions the dashboard holds are the derivation of
\* the current store state at the current instant.
C18_NeverStale ==
  pc = "idle" =>
    /\ rendered.crew = crew(state)
    /\ rendered.totals = totals(state)
    /\ rendered.keyRisks = keyRisks(state, now)
    /\ rendered.actionSuggestions = actionSuggestions(state)

\* The kind of each flag of a risk list, in the list's order.
Kinds(flags) ==
  [k \in 1..Len(flags) |->
     IF flags[k] = BudgetText THEN "budget-exposure"
     ELSE IF flags[k] = AttendanceText THEN "attendance-follow-up"
     ELSE IF \E m \in 0..Len(state.workers) : flags[k] \in ShortCrewTexts(m)
       THEN "short-crew"
     ELSE "other"]

ShortCrewDue == Cardinality(WithStatus(crew(state), "leave")) >= 2

BudgetDue ==
  LET sc == selectedContractor(state)
  IN  /\ sc # NoContractor
      /\ FullDays(parseISO(sc.endDate).day, now) > 0
      /\ Exposed(totals(state).dailySpend,
                 FullDays(parseISO(sc.endDate).day, now), sc.budget)

AttendanceDue ==
  \E i \in 1..Len(state.attendance) :
    /\ state.attendance[i].workerId \in CrewIds(state)
    /\ state.attendance[i].presence = "absent"

\* C19: the risk list is a sub-sequence of short-crew, budget-exposure,
\* attendance-follow-up, in that order and each at most once; each flag is in
\* the list exactly when its own condition holds, whatever the other two
\* conditions are.
C19_RiskOrder ==
  Kinds(keyRisks(state, now))
    = (IF ShortCrewDue THEN << "short-crew" >> ELSE << >>)
        \o (IF BudgetDue THEN << "budget-exposure" >> ELSE << >>)
        \o (IF AttendanceDue THEN << "attendance-follow-up" >> ELSE << >>)

\* All three conditions hold together and the list has the three flags.
C19_Witness ==
  /\ ShortCrewDue
  /\ BudgetDue
  /\ AttendanceDue
  /\ Len(keyRisks(state, now)) = 3

Dangling(s) ==
  /\ s.selectedContractorId # Null
  /\ s.selectedContractorId \notin ContractorIdsOf(s)

\* C20: when the cursor is not null and is no contractor's id, every derived
\* value is what the same collections give with a null cursor: the crew is
\* all the workers, the crew-health target is the size of the crew, and there
\* is no budget flag.
C20_DanglingCursor ==
  Dangling(state) =>
    /\ Derive(state, now)
         = Derive([state EXCEPT !.selectedContractorId = Null], now)
    /\ crew(state) = state.workers
    /\ NearestPct(totals(state).crewHealth, totals(state).presentCount,
                  Len(state.workers))
    /\ ~Emits(keyRisks(state, now), BudgetText)

\* The cursor is "c9", no contractor has that id, and a worker whose
\* contractorId is "c9" has been added.
C20_Witness ==
  /\ Dangling(state)
  /\ \E i \in 1..Len(state.workers) :
       state.workers[i].contractorId = state.selectedContractorId
  /\ Len(crew(state)) = 5

----------------------------------------------------------------------------
(* Properties of the dashboard's handlers *)

\* The first entry of seq whose id is id, or NoRecord.
FirstWithId(seq, id) ==
  IF FindIndex(seq, id) # 0 THEN seq[FindIndex(seq, id)] ELSE NoRecord

\* Every worker but the first one with the given id is as before.
OthersKept(old, new, id) ==
  /\ Len(new) = Len(old)
  /\ \A i \in 1..Len(old) : i # FindIndex(old, id) => new[i] = old[i]

\* C21: Log Attendance with a non-empty workerId w and presence p is two
\* successive store transitions.  The first puts a new record for w with
\* presence p in front of the attendance log and leaves every worker, w's
\* status included, as it was; the second, which is the only step that can
\* follow, leaves the log alone and gives w, if a worker has that id, the
\* status p.  With an empty workerId the flow does not start.  Toggle
\* Presence changes a record's presence and no worker's status.
C21_LogAttendanceFlow ==
  [][ /\ (pc = "idle" /\ pc' = "updateWorkerStatus") =>
           /\ attendanceDraft.workerId # ""
           /\ Len(state'.attendance) = Len(state.attendance) + 1
           /\ state'.attendance[1].workerId = attendanceDraft.workerId
           /\ state'.attendance[1].presence = attendanceDraft.presence
           /\ \A i \in 1..Len(state.attendance) :
                /\ state'.attendance[i + 1] = state.attendance[i]
                /\ state'.attendance[1].id # state.attendance[i].id
           /\ state'.workers = state.workers
           /\ observed' = state'
           /\ calls' = calls + 1
      /\ pc = "updateWorkerStatus" =>
           /\ pc' = "idle"
           /\ state'.attendance = state.attendance
           /\ state'.attendance[1].workerId = record.workerId
           /\ state'.attendance[1].presence = record.presence
           /\ OthersKept(state.workers, state'.workers, record.workerId)
           /\ FindIndex(state.workers, record.workerId) # 0 =>
                FirstWithId(state'.workers, record.workerId).status
                  = record.presence
           /\ observed' = state'
           /\ calls' = calls + 1
      /\ (pc = "idle" /\ attendanceDraft.workerId = "") =>
           /\ pc' = "idle"
           /\ Len(state'.attendance) = Len(state.attendance)
      /\ (StoreCall /\ lastOp'.op = "updateAttendancePresence") =>
           state'.workers = state.workers
    ]_vars

\* A record logged through the form has been toggled: its presence is no
\* longer the status the flow gave its worker.
C21_Witness ==
  /\ pc = "idle"
  /\ lastOp.op = "updateAttendancePresence"
  /\ state.attendance[1].id \in UUIDs
  /\ FindIndex(state.workers, state.attendance[1].workerId) # 0
  /\ FirstWithId(state.workers, state.attendance[1].workerId).status = "leave"
  /\ state.attendance[1].presence = "present"

\* A Toggle Presence click: the only caller of updateAttendancePresence.
ToggleStep == StoreCall /\ lastOp'.op = "updateAttendancePresence"

\* C22: Toggle Presence makes a present record absent and a record of any
\* other presence (absent, leave, standby) present, so after a toggle the
\* presence is present or absent.  A second toggle of the same record, right
\* after the first, gives back the presence the record had before the first
\* exactly when that was present or absent, and never when it was leave or
\* standby.
C22_TogglePresence ==
  [][ ToggleStep =>
        LET i      == FindIndex(state.attendance, lastOp'.id)
            before == state.attendance[i].presence
            after  == state'.attendance[i].presence
        IN  /\ i # 0
            /\ state'.attendance = [state.attendance EXCEPT ![i].presence = after]
            /\ before = "present" => after = "absent"
            /\ before \in {"absent", "leave", "standby"} => after = "present"
            /\ after \in {"present", "absent"}
            /\ (lastOp.op = "updateAttendancePresence" /\ lastOp.id = lastOp'.id) =>
                 /\ before = lastOp.value
                 /\ \A original \in LabourStatus :
                      (IF original = "present" THEN "absent" ELSE "present") = before
                        => (after = original <=> original \in {"present", "absent"})
    ]_vars

\* The seeded leave record has been toggled twice in a row and is absent now.
C22_Witness ==
  /\ lastOp.op = "updateAttendancePresence"
  /\ lastOp.id = "a3"
  /\ lastOp.value = "absent"
  /\ initialAttendance[3].presence = "leave"
  /\ FirstWithId(state.attendance, "a3").presence = "absent"

====
